---- MODULE Spec2Model ----
(***************************************************************************)
(* Model of the live event-stream session of the EventLog component        *)
(* (src/src/components/nodepass/EventLog.tsx): the event log kept by       *)
(* addEventToLog, the attempts started by connectWithFetch, the reconnect  *)
(* timer of scheduleReconnect and the effect that follows the props.       *)
(*                                                                         *)
(* Strings are modelled as sequences of tokens; a status keyword is a      *)
(* token of its own, so String.includes(kw) is membership of the token.    *)
(* JavaScript runs each continuation to its next await without             *)
(* interleaving, so one action is one such run.                            *)
(***************************************************************************)
EXTENDS Integers, Sequences, FiniteSets, TLC

VARIABLES
  props,                         \* the props of the last render
  phase,                         \* "new" (constructed), "mounted", "unmounted"
  events,                        \* useState events, newest first
  isConnected,                   \* useState
  isConnecting,                  \* useState
  uiConnectionStatus,            \* useState
  abortControllerRef,            \* the controller in the ref: its index in attempts, 0 = null
  attempts,                      \* the calls of connectWithFetch that have not returned, oldest first,
                                 \* and last the call that made the controller in the ref
  reconnectTimeoutRef,           \* id of the timer in the ref, 0 = null
  timers,                        \* the timers that are pending, with the props their callback closes over
  retryCountRef,
  hasLoggedInitialConnectionRef,
  currentApiIdRef,
  isInitialAttempt,              \* isInitialAttemptForCurrentApi of the call that made the controller in the ref
  clock,                         \* wall clock read by new Date() for the timestamps
  reader                         \* the read loop of the call in its byte-level view: the bytes the
                                 \* server sends, how many were delivered, the decoder's incomplete
                                 \* character, buffer, and the blocks passed to processSseMessageData

vars == <<props, phase, events, isConnected, isConnecting, uiConnectionStatus,
          abortControllerRef, attempts, reconnectTimeoutRef, timers,
          retryCountRef, hasLoggedInitialConnectionRef, currentApiIdRef,
          isInitialAttempt, clock, reader>>

----------------------------------------------------------------------------
(* Bounds of the model *)

MaxAttempts == 2      \* attempts whose continuation is still pending at one time
MaxTimers == 2        \* timer ids
MaxRetry == 3         \* value retryCountRef may reach
MaxLogLen == 3        \* the stream delivers a chunk while its frames fit in a log of this length
MaxClock == 3         \* insertions made in the log specification
MaxFrames == 2        \* blocks of a stream in the parser specification

(* Program constants *)

LogKeep == 199        \* prevEvents.slice(0, 199)

Null == "null"

\* no stream is being read byte by byte
NoReader == [stream |-> <<>>, pos |-> 0, pending |-> <<>>, buffer |-> <<>>, handed |-> <<>>]

Min(a, b) == IF a < b THEN a ELSE b

----------------------------------------------------------------------------
(* Props: the connection identity handed to the component *)

MkProps(id, root, token, name) ==
  [apiId |-> id, apiRoot |-> root, apiToken |-> token, apiName |-> name]

ValidProps ==
  { MkProps("A", "r1", "t1", "n1"),
    MkProps("A", "r2", "t1", "n1"),
    MkProps("B", "r1", "t1", "n1") }

InvalidProps ==
  { MkProps("A", Null, "t1", "n1") }

HostProps == ValidProps \cup InvalidProps

\* apiId && apiRoot && apiToken && apiName
PropsValid(p) ==
  p.apiId # Null /\ p.apiRoot # Null /\ p.apiToken # Null /\ p.apiName # Null

----------------------------------------------------------------------------
(* Event payloads and the event log *)

STATUS_MESSAGE_KEYWORDS ==
  { "kw_initializing", "kw_error", "kw_connected", "kw_disabled",
    "kw_cannotEstablish", "kw_serverClosed", "kw_streamClosedByServer",
    "kw_disconnected" }

StringData(text) == [isString |-> TRUE, text |-> text]
ObjectData == [isString |-> FALSE, text |-> <<>>]

Includes(text, kw) == \E i \in 1..Len(text) : text[i] = kw

\* typeof data === 'string' && STATUS_MESSAGE_KEYWORDS.some(kw => data.includes(kw))
IsStatusData(d) ==
  d.isString /\ \E kw \in STATUS_MESSAGE_KEYWORDS : Includes(d.text, kw)

IsStatusEvent(e) == IsStatusData(e.data)

MkEvent(type, data, level, ts) ==
  [type |-> type, data |-> data, level |-> level, timestamp |-> ts]

Slice(s, n) == SubSeq(s, 1, Min(n, Len(s)))

NotStatusEvent(e) == ~IsStatusEvent(e)

\* A plausible slip: the old status lines are kept
AddEventToLogNoFilter(prevEvents, newEvent) ==
  <<newEvent>> \o Slice(prevEvents, LogKeep)

\* A plausible slip: the cap is applied before the status lines are removed
AddEventToLogSliceFirst(prevEvents, newEvent) ==
  IF IsStatusData(newEvent.data)
  THEN <<newEvent>> \o SelectSeq(Slice(prevEvents, LogKeep), NotStatusEvent)
  ELSE <<newEvent>> \o Slice(prevEvents, LogKeep)

\* A plausible slip: slice(0, 200) keeps one entry too many
AddEventToLogOffByOne(prevEvents, newEvent) ==
  LET filteredPrevEvents ==
        IF IsStatusData(newEvent.data)
        THEN SelectSeq(prevEvents, NotStatusEvent)
        ELSE prevEvents
  IN  <<newEvent>> \o Slice(filteredPrevEvents, LogKeep + 1)

\* the updater passed to setEvents in addEventToLog
AddEventToLog(prevEvents, newEvent) ==
  LET filteredPrevEvents ==
        IF IsStatusData(newEvent.data)
        THEN SelectSeq(prevEvents, NotStatusEvent)
        ELSE prevEvents
  IN  <<newEvent>> \o Slice(filteredPrevEvents, LogKeep)

----------------------------------------------------------------------------
(* The session state as one record, so that a handler is the composition   *)
(* of the calls it makes                                                   *)

AttemptIds == 1..MaxAttempts
TimerIds == 1..MaxTimers

Cur ==
  [props |-> props, phase |-> phase, events |-> events,
   isConnected |-> isConnected, isConnecting |-> isConnecting,
   uiConnectionStatus |-> uiConnectionStatus,
   abortControllerRef |-> abortControllerRef, attempts |-> attempts,
   reconnectTimeoutRef |-> reconnectTimeoutRef, timers |-> timers,
   retryCountRef |-> retryCountRef,
   hasLoggedInitialConnectionRef |-> hasLoggedInitialConnectionRef,
   currentApiIdRef |-> currentApiIdRef,
   isInitialAttempt |-> isInitialAttempt, clock |-> clock, reader |-> reader]

Commit(s) ==
  /\ props' = s.props
  /\ phase' = s.phase
  /\ events' = s.events
  /\ isConnected' = s.isConnected
  /\ isConnecting' = s.isConnecting
  /\ uiConnectionStatus' = s.uiConnectionStatus
  /\ abortControllerRef' = s.abortControllerRef
  /\ attempts' = s.attempts
  /\ reconnectTimeoutRef' = s.reconnectTimeoutRef
  /\ timers' = s.timers
  /\ retryCountRef' = s.retryCountRef
  /\ hasLoggedInitialConnectionRef' = s.hasLoggedInitialConnectionRef
  /\ currentApiIdRef' = s.currentApiIdRef
  /\ isInitialAttempt' = s.isInitialAttempt
  /\ clock' = s.clock
  /\ reader' = s.reader

\* a useState setter: React drops the update once the component is unmounted
SetState(s, field, value) ==
  IF s.phase = "unmounted" THEN s ELSE [s EXCEPT ![field] = value]

AddEvent(s, e) == SetState(s, "events", AddEventToLog(s.events, e))

Restrict(f, S) == [x \in S |-> f[x]]

MinOf(S) == CHOOSE x \in S : \A y \in S : x <= y

IsPending(att) == att.pc # "done"

\* the calls of connectWithFetch that have not returned
Pending(s) == SelectSeq(s.attempts, IsPending)

HasFreeAttempt(s) == Len(Pending(s)) < MaxAttempts

RemoveAt(seq, i) == SubSeq(seq, 1, i - 1) \o SubSeq(seq, i + 1, Len(seq))

(* the diagnostics; eventsUrl is a function of apiRoot alone *)

InitializingEvent(p, ts) ==
  MkEvent("log", StringData(<<"kw_initializing", p.apiRoot>>), Null, ts)

ConnectedEvent(p, ts) ==
  MkEvent("log", StringData(<<"kw_connected", p.apiRoot>>), Null, ts)

ConfigInvalidEvent(ts) ==
  MkEvent("log", StringData(<<"configInvalid">>), Null, ts)

ReconnectErrorEvent(p, reason, n, ts) ==
  MkEvent("log",
          StringData(IF reason = "serverClosed"
                     THEN <<"kw_streamClosedByServer", "kw_serverClosed", ToString(n), p.apiRoot>>
                     ELSE <<"kw_cannotEstablish", p.apiRoot, "reason", ToString(n)>>),
          "ERROR", ts)

ShutdownEvent(ts) ==
  MkEvent("shutdown", StringData(<<"shutdownMessage">>), Null, ts)

----------------------------------------------------------------------------
(* Refs: the controller and the timer *)

\* A plausible slip: the previous controller is left running
AbortCurrentNever(s) == s

\* if (abortControllerRef.current && !abortControllerRef.current.signal.aborted) abort()
AbortCurrent(s) ==
  IF s.abortControllerRef # 0 /\ ~s.attempts[s.abortControllerRef].aborted
  THEN [s EXCEPT !.attempts[s.abortControllerRef].aborted = TRUE]
  ELSE s

\* if (reconnectTimeoutRef.current) { clearTimeout(...); reconnectTimeoutRef.current = null }
ClearReconnectTimeout(s) ==
  IF s.reconnectTimeoutRef # 0
  THEN [s EXCEPT !.timers = Restrict(@, DOMAIN @ \ {s.reconnectTimeoutRef}),
                 !.reconnectTimeoutRef = 0]
  ELSE s

\* abortControllerRef.current = new AbortController(); the call's closure keeps
\* its props, its signal and isInitialAttemptForCurrentApi
NewController(s, p, initial) ==
  LET keep == Pending(s)
      rec == [props |-> p, aborted |-> FALSE, pc |-> "fetch"]
  IN  [s EXCEPT !.attempts = Append(keep, rec),
                !.abortControllerRef = Len(keep) + 1,
                !.isInitialAttempt = initial]

\* connectWithFetch, from its entry to its first await (the fetch)
ConnectWithFetch(s, p, initial) ==
  IF ~PropsValid(p)
  THEN AddEvent(SetState(s, "uiConnectionStatus", "idle"), ConfigInvalidEvent(s.clock))
  ELSE
    LET s1 == NewController(AbortCurrent(s), p, initial)
        s2 == IF initial
              THEN AddEvent(SetState(SetState(s1, "isConnecting", TRUE),
                                     "uiConnectionStatus", "connecting"),
                            InitializingEvent(p, s.clock))
              ELSE s1
    IN  ClearReconnectTimeout(s2)

FreshTimer(ts) ==
  IF TimerIds \ DOMAIN ts # {} THEN MinOf(TimerIds \ DOMAIN ts) ELSE MinOf(TimerIds)

\* A plausible slip: the first retry is not silent (n > 0 for n > 1)
ScheduleReconnectNoSilentRetry(s, p, reason) ==
  IF s.abortControllerRef # 0 /\ s.attempts[s.abortControllerRef].aborted
  THEN s
  ELSE
    LET n  == s.retryCountRef + 1
        s1 == [s EXCEPT !.retryCountRef = n]
        s2 == SetState(SetState(s1, "isConnected", FALSE), "uiConnectionStatus", "disconnected")
        s3 == IF n > 0
              THEN AddEvent(s2, ReconnectErrorEvent(p, reason, n, s.clock))
              ELSE s2
        cleared == IF s3.reconnectTimeoutRef # 0
                   THEN Restrict(s3.timers, DOMAIN s3.timers \ {s3.reconnectTimeoutRef})
                   ELSE s3.timers
        t == FreshTimer(cleared)
    IN  [s3 EXCEPT !.timers = [x \in DOMAIN cleared \cup {t} |-> IF x = t THEN p ELSE cleared[x]],
                   !.reconnectTimeoutRef = t]

\* A plausible slip: the server closing the stream is reported every time
ScheduleReconnectReportsClose(s, p, reason) ==
  IF s.abortControllerRef # 0 /\ s.attempts[s.abortControllerRef].aborted
  THEN s
  ELSE
    LET n  == s.retryCountRef + 1
        s1 == [s EXCEPT !.retryCountRef = n]
        s2 == SetState(SetState(s1, "isConnected", FALSE), "uiConnectionStatus", "disconnected")
        s3 == IF n > 1 \/ reason = "serverClosed"
              THEN AddEvent(s2, ReconnectErrorEvent(p, reason, n, s.clock))
              ELSE s2
        cleared == IF s3.reconnectTimeoutRef # 0
                   THEN Restrict(s3.timers, DOMAIN s3.timers \ {s3.reconnectTimeoutRef})
                   ELSE s3.timers
        t == FreshTimer(cleared)
    IN  [s3 EXCEPT !.timers = [x \in DOMAIN cleared \cup {t} |-> IF x = t THEN p ELSE cleared[x]],
                   !.reconnectTimeoutRef = t]

\* A plausible slip: the timer is never armed
ScheduleReconnectNoTimer(s, p, reason) ==
  IF s.abortControllerRef # 0 /\ s.attempts[s.abortControllerRef].aborted
  THEN s
  ELSE
    LET n  == s.retryCountRef + 1
        s1 == [s EXCEPT !.retryCountRef = n]
        s2 == SetState(SetState(s1, "isConnected", FALSE), "uiConnectionStatus", "disconnected")
    IN  IF n > 1
        THEN AddEvent(s2, ReconnectErrorEvent(p, reason, n, s.clock))
        ELSE s2

\* scheduleReconnect(reason), called from the closure whose props are p
ScheduleReconnect(s, p, reason) ==
  IF s.abortControllerRef # 0 /\ s.attempts[s.abortControllerRef].aborted
  THEN s
  ELSE
    LET n  == s.retryCountRef + 1
        s1 == [s EXCEPT !.retryCountRef = n]
        s2 == SetState(SetState(s1, "isConnected", FALSE), "uiConnectionStatus", "disconnected")
        s3 == IF n > 1
              THEN AddEvent(s2, ReconnectErrorEvent(p, reason, n, s.clock))
              ELSE s2
        cleared == IF s3.reconnectTimeoutRef # 0
                   THEN Restrict(s3.timers, DOMAIN s3.timers \ {s3.reconnectTimeoutRef})
                   ELSE s3.timers
        t == FreshTimer(cleared)
    IN  [s3 EXCEPT !.timers = [x \in DOMAIN cleared \cup {t} |-> IF x = t THEN p ELSE cleared[x]],
                   !.reconnectTimeoutRef = t]

----------------------------------------------------------------------------
(* The continuations of one call of connectWithFetch *)

\* the call returns: its closure is dropped; its controller stays while the ref holds it
Finish(s, a) ==
  IF a = s.abortControllerRef
  THEN [s EXCEPT !.attempts[a].pc = "done"]
  ELSE [s EXCEPT !.attempts = RemoveAt(@, a),
                 !.abortControllerRef = IF @ > a THEN @ - 1 ELSE @]

\* A plausible slip: the catch block reconnects without looking at its own signal
CatchBlockNoSignalCheck(s, a, errorName, reason) ==
  LET s1 == SetState(SetState(s, "isConnected", FALSE), "isConnecting", FALSE)
  IN  Finish(ScheduleReconnect(s1, s.attempts[a].props, reason), a)

\* the catch block of connectWithFetch
CatchBlock(s, a, errorName, reason) ==
  LET s1 == SetState(SetState(s, "isConnected", FALSE), "isConnecting", FALSE)
      aborted == s.attempts[a].aborted
      s2 == IF aborted /\ errorName = "AbortError"
            THEN s1
            ELSE IF ~aborted
                 THEN ScheduleReconnect(s1, s.attempts[a].props, reason)
                 ELSE s1
  IN  Finish(s2, a)

\* A plausible slip: every connection is announced
ConnectedAlwaysLogs(s, a) ==
  LET p  == s.attempts[a].props
      s1 == SetState(SetState(SetState(s, "isConnected", TRUE), "isConnecting", FALSE),
                     "uiConnectionStatus", "connected")
      s2 == [s1 EXCEPT !.retryCountRef = 0]
      s3 == [AddEvent(s2, ConnectedEvent(p, s.clock))
               EXCEPT !.hasLoggedInitialConnectionRef = TRUE]
  IN  [s3 EXCEPT !.attempts[a].pc = "read"]

\* A plausible slip: the connected transition leaves the retry counter
ConnectedKeepsRetryCount(s, a) ==
  LET p  == s.attempts[a].props
      s1 == SetState(SetState(SetState(s, "isConnected", TRUE), "isConnecting", FALSE),
                     "uiConnectionStatus", "connected")
      s3 == IF ~s1.hasLoggedInitialConnectionRef
            THEN [AddEvent(s1, ConnectedEvent(p, s.clock))
                    EXCEPT !.hasLoggedInitialConnectionRef = TRUE]
            ELSE s1
  IN  [s3 EXCEPT !.attempts[a].pc = "read"]

\* the response is ok and has a body: the connected transition, up to the first read
Connected(s, a) ==
  LET p  == s.attempts[a].props
      s1 == SetState(SetState(SetState(s, "isConnected", TRUE), "isConnecting", FALSE),
                     "uiConnectionStatus", "connected")
      s2 == [s1 EXCEPT !.retryCountRef = 0]
      s3 == IF ~s2.hasLoggedInitialConnectionRef
            THEN [AddEvent(s2, ConnectedEvent(p, s.clock))
                    EXCEPT !.hasLoggedInitialConnectionRef = TRUE]
            ELSE s2
  IN  [s3 EXCEPT !.attempts[a].pc = "read"]

(* Stream text. A character is a token: the line feed, the space, a field   *)
(* name with its colon, a word, or the text of one JSON document.           *)

NL == "\n"
SP == " "

IsSepAt(text, i, n) ==
  i + n - 1 <= Len(text) /\ \A j \in 0..(n - 1) : text[i + j] = NL

RECURSIVE SplitFrom(_, _, _, _)
SplitFrom(text, n, i, piece) ==
  IF i > Len(text) THEN <<piece>>
  ELSE IF IsSepAt(text, i, n)
       THEN <<piece>> \o SplitFrom(text, n, i + n, <<>>)
       ELSE SplitFrom(text, n, i + 1, Append(piece, text[i]))

\* text.split(sep) for sep a run of n line feeds: the pieces between the
\* separators found from left to right
Split(text, n) == SplitFrom(text, n, 1, <<>>)

IsSpace(c) == c \in { SP, NL }

RECURSIVE TrimStart(_)
TrimStart(text) ==
  IF text # <<>> /\ IsSpace(Head(text)) THEN TrimStart(Tail(text)) ELSE text

RECURSIVE TrimEnd(_)
TrimEnd(text) ==
  IF text # <<>> /\ IsSpace(text[Len(text)])
  THEN TrimEnd(SubSeq(text, 1, Len(text) - 1))
  ELSE text

\* String.prototype.trim
Trim(text) == TrimEnd(TrimStart(text))

\* String.prototype.startsWith
StartsWith(text, prefix) ==
  Len(text) >= Len(prefix) /\ SubSeq(text, 1, Len(prefix)) = prefix

RECURSIVE ScanLines(_, _, _)
\* for (const line of lines): the last event: line and the last data: line win
ScanLines(lines, eventTypeFromServer, eventDataLine) ==
  IF lines = <<>>
  THEN [event |-> eventTypeFromServer, data |-> eventDataLine]
  ELSE LET line == Head(lines)
       IN  IF StartsWith(line, <<"event:">>)
           THEN ScanLines(Tail(lines), Trim(Tail(line)), eventDataLine)
           ELSE IF StartsWith(line, <<"data:">>)
                THEN ScanLines(Tail(lines), eventTypeFromServer, Trim(Tail(line)))
                ELSE ScanLines(Tail(lines), eventTypeFromServer, eventDataLine)

\* eventTypeFromServer and eventDataLine of a block
FrameFields(messageBlock) == ScanLines(Split(messageBlock, 1), <<"message">>, <<>>)

(* JSON documents. A document is one character of the stream; JSON.parse    *)
(* gives the value written here. Field values are named: "undefined" for an *)
(* absent field, "zero" for the number 0, "I1" and "D1" for two objects.    *)
(* logs is a string, as a sequence of words, "" when absent; time is 0      *)
(* when absent.                                                             *)

Undefined == "undefined"

JsonObject(type, instance, data, logs, time) ==
  [isNull |-> FALSE, type |-> type, instance |-> instance, data |-> data,
   logs |-> logs, time |-> time]

JsonNull ==
  [isNull |-> TRUE, type |-> Undefined, instance |-> Undefined, data |-> Undefined,
   logs |-> <<>>, time |-> 0]

ServerTime == 1000

JsonTexts ==
  { "j_update_instance", "j_create_data", "j_delete_bare", "j_initial_zero",
    "j_update_bare", "j_log_status", "j_log_error", "j_log_info_error",
    "j_log_errors", "j_log_nologs", "j_shutdown", "j_unknown", "j_null",
    "j_update_text" }

JsonValue(t) ==
  CASE t = "j_update_instance" -> JsonObject("update", "I1", "D1", <<>>, ServerTime)
    [] t = "j_create_data"     -> JsonObject("create", Undefined, "D1", <<>>, 0)
    [] t = "j_delete_bare"     -> JsonObject("delete", Undefined, Undefined, <<>>, 0)
    [] t = "j_initial_zero"    -> JsonObject("initial", Undefined, "zero", <<>>, 0)
    [] t = "j_update_bare"     -> JsonObject("update", Undefined, Undefined, <<>>, 0)
    [] t = "j_log_status"      -> JsonObject("log", Undefined, Undefined, <<"serverText", "kw_error">>, 0)
    [] t = "j_log_error"       -> JsonObject("log", Undefined, Undefined, <<"tunnel", "error", "seen">>, 0)
    [] t = "j_log_info_error"  -> JsonObject("log", Undefined, Undefined, <<"INFO", "last", "ERROR">>, 0)
    [] t = "j_log_errors"      -> JsonObject("log", Undefined, Undefined, <<"errors", "seen">>, 0)
    [] t = "j_log_nologs"      -> JsonObject("log", Undefined, Undefined, <<>>, 0)
    [] t = "j_shutdown"        -> JsonObject("shutdown", Undefined, Undefined, <<>>, 0)
    [] t = "j_unknown"         -> JsonObject("heartbeat", Undefined, Undefined, <<>>, 0)
    [] t = "j_null"            -> JsonNull
    [] t = "j_update_text"     -> JsonObject("update", Undefined, "S_diskError", <<>>, 0)

\* JSON.parse(eventDataLine) returns: the line is the text of one document
JsonParses(eventDataLine) ==
  Len(eventDataLine) = 1 /\ eventDataLine[1] \in JsonTexts

\* a value in a condition: undefined, null, 0, "" and false count as false
Truthy(v) == v \notin { Undefined, "null", "zero", "emptyString", "false" }

\* the values of the documents that are JSON strings, and their words
JsonStrings == { "S_diskError" }

JsonStringText(v) == <<"disk", "error">>

\* a payload taken from the document: a string, or a value that is neither
\* a string nor {}
JsonData(v) ==
  IF v \in JsonStrings
  THEN StringData(JsonStringText(v))
  ELSE [isString |-> FALSE, text |-> <<>>, value |-> v]

\* JSON.stringify(value), as the words of its fields
JsonStringify(v) == <<"{", v.type, v.instance, v.data>> \o v.logs \o <<"}">>

LOG_LEVELS == { "DEBUG", "INFO", "WARN", "ERROR", "FATAL" }

\* String.prototype.toUpperCase on the words of the model
ToUpperCase(w) ==
  CASE w \in { "error", "Error" } -> "ERROR"
    [] w = "info" -> "INFO"
    [] w = "errors" -> "ERRORS"
    [] OTHER -> w

RECURSIVE ParseLogLevelCaseSensitive(_)
\* A plausible slip: the match is case sensitive
ParseLogLevelCaseSensitive(logMessage) ==
  IF logMessage = <<>> THEN Null
  ELSE IF Head(logMessage) \in LOG_LEVELS
       THEN Head(logMessage)
       ELSE ParseLogLevelCaseSensitive(Tail(logMessage))

RECURSIVE ParseLogLevel(_)
\* parseLogLevel: the first word that is a level, whatever its case
ParseLogLevel(logMessage) ==
  IF logMessage = <<>> THEN Null
  ELSE IF ToUpperCase(Head(logMessage)) \in LOG_LEVELS
       THEN ToUpperCase(Head(logMessage))
       ELSE ParseLogLevel(Tail(logMessage))

\* the events the decoder makes carry the time the server gave, or 0 for
\* the time of their insertion
ParseErrorEvent(eventDataLine) ==
  MkEvent("log", StringData(<<"parseEvent", "kw_error", "(fetch)">> \o eventDataLine), Null, 0)

GenericEvent(eventDataLine) ==
  MkEvent("log", StringData(<<"genericMessage", "(fetch)">> \o eventDataLine), Null, 0)

\* A plausible slip: the data field is preferred to the embedded instance
InstanceEventDataFirst(v) ==
  CASE v.type \in { "initial", "create", "update", "delete" } ->
         MkEvent(v.type,
                 IF Truthy(v.data) THEN JsonData(v.data)
                 ELSE IF Truthy(v.instance) THEN JsonData(v.instance)
                 ELSE ObjectData,
                 Null, v.time)
    [] v.type = "log" ->
         LET text == IF v.logs # <<>> THEN v.logs
                     ELSE <<"logEventWithoutLogs">> \o JsonStringify(v)
         IN  MkEvent("log", StringData(text), ParseLogLevel(text), v.time)
    [] v.type = "shutdown" -> ShutdownEvent(v.time)
    [] OTHER ->
         LET text == <<"unknownEvent", v.type>> \o
                     (IF Truthy(v.data) THEN <<v.data>>
                      ELSE IF Truthy(v.instance) THEN <<v.instance>>
                      ELSE JsonStringify(v))
         IN  MkEvent("log", StringData(text), ParseLogLevel(text), v.time)

\* newEventToLog, made from the parsed payload v
InstanceEvent(v) ==
  CASE v.type \in { "initial", "create", "update", "delete" } ->
         MkEvent(v.type,
                 IF Truthy(v.instance) THEN JsonData(v.instance)
                 ELSE IF Truthy(v.data) THEN JsonData(v.data)
                 ELSE ObjectData,
                 Null, v.time)
    [] v.type = "log" ->
         LET text == IF v.logs # <<>> THEN v.logs
                     ELSE <<"logEventWithoutLogs">> \o JsonStringify(v)
         IN  MkEvent("log", StringData(text), ParseLogLevel(text), v.time)
    [] v.type = "shutdown" -> ShutdownEvent(v.time)
    [] OTHER ->
         LET text == <<"unknownEvent", v.type>> \o
                     (IF Truthy(v.data) THEN <<v.data>>
                      ELSE IF Truthy(v.instance) THEN <<v.instance>>
                      ELSE JsonStringify(v))
         IN  MkEvent("log", StringData(text), ParseLogLevel(text), v.time)

\* what a block decodes to: the events to append (none or one) and whether
\* the controller in the ref is aborted
Decoded(evs, abort) == [events |-> evs, abort |-> abort]

\* A plausible slip: a data line that does not parse is dropped
DecodeBlockDropUnparsable(messageBlock) ==
  LET f == FrameFields(messageBlock)
  IN  IF f.event = <<"instance">> /\ f.data # <<>>
      THEN IF JsonParses(f.data) /\ ~JsonValue(f.data[1]).isNull
           THEN LET v == JsonValue(f.data[1])
                IN  Decoded(<<InstanceEvent(v)>>, v.type = "shutdown")
           ELSE Decoded(<<>>, FALSE)
      ELSE IF f.data # <<>> /\ ~StartsWith(f.data, <<"retry:">>)
           THEN Decoded(<<GenericEvent(f.data)>>, FALSE)
           ELSE Decoded(<<>>, FALSE)

\* A plausible slip: the retry hint is logged like any other plain message
DecodeBlockLogRetry(messageBlock) ==
  LET f == FrameFields(messageBlock)
  IN  IF f.event = <<"instance">> /\ f.data # <<>>
      THEN IF JsonParses(f.data) /\ ~JsonValue(f.data[1]).isNull
           THEN LET v == JsonValue(f.data[1])
                IN  Decoded(<<InstanceEvent(v)>>, v.type = "shutdown")
           ELSE Decoded(<<ParseErrorEvent(f.data)>>, FALSE)
      ELSE IF f.data # <<>>
           THEN Decoded(<<GenericEvent(f.data)>>, FALSE)
           ELSE Decoded(<<>>, FALSE)

\* processSseMessageData(messageBlock) up to its call of addEventToLog
DecodeBlock(messageBlock) ==
  LET f == FrameFields(messageBlock)
  IN  IF f.event = <<"instance">> /\ f.data # <<>>
      THEN IF JsonParses(f.data) /\ ~JsonValue(f.data[1]).isNull
           THEN LET v == JsonValue(f.data[1])
                IN  Decoded(<<InstanceEvent(v)>>, v.type = "shutdown")
           ELSE Decoded(<<ParseErrorEvent(f.data)>>, FALSE)
      ELSE IF f.data # <<>> /\ ~StartsWith(f.data, <<"retry:">>)
           THEN Decoded(<<GenericEvent(f.data)>>, FALSE)
           ELSE Decoded(<<>>, FALSE)

\* timestamp: serverEventPayload.time || new Date()
Stamp(e, now) == IF e.timestamp = 0 THEN [e EXCEPT !.timestamp = now] ELSE e

\* the abort and the addEventToLog of processSseMessageData
ApplyDecoded(s, d) ==
  LET s1 == IF d.abort THEN AbortCurrent(s) ELSE s
  IN  IF d.events = <<>> THEN s1 ELSE AddEvent(s1, Stamp(d.events[1], s.clock))

\* processSseMessageData(messageBlock), on the text of the block
ProcessSseMessageBlock(s, messageBlock) == ApplyDecoded(s, DecodeBlock(messageBlock))

\* a frame with the event name and the data line given
Frame(eventName, dataLine) ==
  (IF eventName = <<>> THEN <<>> ELSE <<"event:", SP>> \o eventName \o <<NL>>)
    \o <<"data:", SP>> \o dataLine

(* Frames, as the classes processSseMessageData tells apart *)

FrameKinds == { "update", "logStatus", "shutdown", "retry" }

\* A plausible slip: the shutdown frame is logged and the read goes on
ProcessSseMessageDataNoAbort(s, frame) ==
  CASE frame = "update" ->
         AddEvent(s, MkEvent("update", ObjectData, Null, s.clock))
    [] frame = "logStatus" ->
         AddEvent(s, MkEvent("log", StringData(<<"serverText", "kw_error">>), Null, s.clock))
    [] frame = "shutdown" ->
         AddEvent(s, ShutdownEvent(s.clock))
    [] OTHER -> s

\* the block of a frame of each class
FrameBlock(frame) ==
  CASE frame = "update"    -> Frame(<<"instance">>, <<"j_update_bare">>)
    [] frame = "logStatus" -> Frame(<<"instance">>, <<"j_log_status">>)
    [] frame = "shutdown"  -> Frame(<<"instance">>, <<"j_shutdown">>)
    [] frame = "retry"     -> Frame(<<>>, <<"retry:", SP, "3000">>)

\* what the frame of each class decodes to
ClassDecoded == [frame \in FrameKinds |-> DecodeBlock(FrameBlock(frame))]

\* processSseMessageData(block), for the frame of a class
ProcessSseMessageData(s, frame) == ApplyDecoded(s, ClassDecoded[frame])

RECURSIVE ProcessBlocks(_, _)
\* for (const block of messageBlocks) processSseMessageData(block)
ProcessBlocks(s, blocks) ==
  IF blocks = <<>> THEN s
  ELSE ProcessBlocks(ProcessSseMessageData(s, Head(blocks)), Tail(blocks))

\* A plausible slip: the loop looks at the signal of the controller in the
\* ref and not at its own
AfterReadChecksRefSignal(s, a, done, blocks) ==
  IF s.attempts[s.abortControllerRef].aborted
  THEN Finish(s, a)
  ELSE IF done
       THEN LET s1 == SetState(s, "isConnected", FALSE)
            IN  Finish(ScheduleReconnect(s1, s.attempts[a].props, "serverClosed"), a)
       ELSE ProcessBlocks(s, blocks)

\* A plausible slip: the loop does not look at its signal after the read
AfterReadNoSignalCheck(s, a, done, blocks) ==
  IF done
  THEN Finish(ScheduleReconnect(SetState(s, "isConnected", FALSE),
                                s.attempts[a].props, "serverClosed"), a)
  ELSE ProcessBlocks(s, blocks)

\* the body of the read loop after reader.read() resolved with {value, done}
AfterRead(s, a, done, blocks) ==
  IF s.attempts[a].aborted
  THEN Finish(s, a)
  ELSE IF done
       THEN LET s1 == SetState(s, "isConnected", FALSE)
            IN  Finish(ScheduleReconnect(s1, s.attempts[a].props, "serverClosed"), a)
       ELSE ProcessBlocks(s, blocks)

----------------------------------------------------------------------------
(* The read loop on the bytes of the stream. A character is one byte, but  *)
(* for "é", which is the two bytes 0xC3 0xA9.                              *)

RECURSIVE Encode(_)
\* the UTF-8 bytes the server sends for a text
Encode(text) ==
  IF text = <<>> THEN <<>>
  ELSE (IF Head(text) = "é" THEN <<"0xC3", "0xA9">> ELSE <<Head(text)>>) \o Encode(Tail(text))

WithChar(c, r) == [r EXCEPT !.chars = <<c>> \o @]

RECURSIVE Decode(_, _)
\* decoder.decode(value, { stream: true }): the characters that are complete,
\* and the lead byte kept for the next call; a byte sequence that is not
\* UTF-8 gives U+FFFD
Decode(pending, value) ==
  IF value = <<>> THEN [chars |-> <<>>, pending |-> pending]
  ELSE LET b == Head(value)
       IN  IF pending # <<>>
           THEN IF b = "0xA9"
                THEN WithChar("é", Decode(<<>>, Tail(value)))
                ELSE WithChar("U+FFFD", Decode(<<>>, value))
           ELSE IF b = "0xC3" THEN Decode(<<b>>, Tail(value))
                ELSE IF b = "0xA9" THEN WithChar("U+FFFD", Decode(<<>>, Tail(value)))
                     ELSE WithChar(b, Decode(<<>>, Tail(value)))

\* block.trim() !== ''
NotBlank(block) == Trim(block) # <<>>

Front(seq) == SubSeq(seq, 1, Len(seq) - 1)

RECURSIVE ProcessMessageBlocks(_, _)
\* for (const block of messageBlocks) processSseMessageData(block)
ProcessMessageBlocks(s, blocks) ==
  IF blocks = <<>> THEN s
  ELSE ProcessMessageBlocks(ProcessSseMessageBlock(s, Head(blocks)), Tail(blocks))

Reverse(seq) == [i \in 1..Len(seq) |-> seq[Len(seq) + 1 - i]]

\* A plausible slip: the blocks of a chunk are processed last to first
AfterReadBytesReversed(s, a, done, value) ==
  IF s.attempts[a].aborted \/ done
  THEN AfterRead(s, a, done, <<>>)
  ELSE LET d == Decode(s.reader.pending, value)
           messageBlocks == Split(s.reader.buffer \o d.chars, 2)
           blocks == SelectSeq(Front(messageBlocks), NotBlank)
           s1 == [s EXCEPT !.reader.pending = d.pending,
                           !.reader.buffer = messageBlocks[Len(messageBlocks)],
                           !.reader.handed = @ \o blocks]
       IN  ProcessMessageBlocks(s1, Reverse(blocks))

\* A plausible slip: the text after the last separator is not kept
AfterReadBytesDropRest(s, a, done, value) ==
  IF s.attempts[a].aborted \/ done
  THEN AfterRead(s, a, done, <<>>)
  ELSE LET d == Decode(s.reader.pending, value)
           messageBlocks == Split(s.reader.buffer \o d.chars, 2)
           blocks == SelectSeq(Front(messageBlocks), NotBlank)
           s1 == [s EXCEPT !.reader.pending = d.pending,
                           !.reader.buffer = <<>>,
                           !.reader.handed = @ \o blocks]
       IN  ProcessMessageBlocks(s1, blocks)

\* A plausible slip: the last piece is processed before its separator has arrived
AfterReadBytesEager(s, a, done, value) ==
  IF s.attempts[a].aborted \/ done
  THEN AfterRead(s, a, done, <<>>)
  ELSE LET d == Decode(s.reader.pending, value)
           messageBlocks == Split(s.reader.buffer \o d.chars, 2)
           blocks == SelectSeq(messageBlocks, NotBlank)
           s1 == [s EXCEPT !.reader.pending = d.pending,
                           !.reader.buffer = <<>>,
                           !.reader.handed = @ \o blocks]
       IN  ProcessMessageBlocks(s1, blocks)

\* the body of the read loop after reader.read() resolved with {value, done},
\* value being bytes
AfterReadBytes(s, a, done, value) ==
  IF s.attempts[a].aborted \/ done
  THEN AfterRead(s, a, done, <<>>)
  ELSE LET d == Decode(s.reader.pending, value)
           messageBlocks == Split(s.reader.buffer \o d.chars, 2)
           blocks == SelectSeq(Front(messageBlocks), NotBlank)
           s1 == [s EXCEPT !.reader.pending = d.pending,
                           !.reader.buffer = messageBlocks[Len(messageBlocks)],
                           !.reader.handed = @ \o blocks]
       IN  ProcessMessageBlocks(s1, blocks)

----------------------------------------------------------------------------
(* The effect on [apiId, apiRoot, apiToken, apiName] and its cleanup *)

\* A plausible slip: the cleanup leaves the reconnect timer
CleanupKeepsTimer(s) == AbortCurrent(s)

\* the function the effect returns
Cleanup(s) == ClearReconnectTimeout(AbortCurrent(s))

\* A plausible slip: the identity change keeps the state of the previous identity
ResetForNewApiKeep(s, p) ==
  LET s1 == ClearReconnectTimeout(AbortCurrent(s))
      s2 == SetState(SetState(s1, "isConnecting", TRUE), "uiConnectionStatus", "connecting")
  IN  ConnectWithFetch([s2 EXCEPT !.currentApiIdRef = p.apiId], p, TRUE)

\* the branch currentApiIdRef.current !== apiId
ResetForNewApi(s, p) ==
  LET s1 == ClearReconnectTimeout(AbortCurrent(s))
      s2 == SetState(SetState(SetState(SetState(s1, "events", <<>>),
                                       "isConnected", FALSE),
                              "isConnecting", TRUE),
                     "uiConnectionStatus", "connecting")
      s3 == [s2 EXCEPT !.retryCountRef = 0,
                       !.hasLoggedInitialConnectionRef = FALSE,
                       !.currentApiIdRef = p.apiId]
  IN  ConnectWithFetch(s3, p, TRUE)

\* A plausible slip: the branch for an invalid configuration leaves the status
EffectBodyInvalidKeepsStatus(s, p) ==
  IF PropsValid(p)
  THEN IF s.currentApiIdRef # p.apiId
       THEN ResetForNewApi(s, p)
       ELSE IF ~s.isConnected /\ ~s.isConnecting /\ s.reconnectTimeoutRef = 0
            THEN LET s1 == SetState(SetState(s, "isConnecting", TRUE),
                                    "uiConnectionStatus", "connecting")
                 IN  ConnectWithFetch([s1 EXCEPT !.retryCountRef = 0], p, TRUE)
            ELSE s
  ELSE LET s1 == SetState(SetState(SetState(s, "events", <<>>),
                                   "isConnected", FALSE),
                          "isConnecting", FALSE)
           s2 == ClearReconnectTimeout(AbortCurrent(s1))
       IN  [s2 EXCEPT !.currentApiIdRef = Null]

\* the body of the effect, run with the props p of the render
EffectBody(s, p) ==
  IF PropsValid(p)
  THEN IF s.currentApiIdRef # p.apiId
       THEN ResetForNewApi(s, p)
       ELSE IF ~s.isConnected /\ ~s.isConnecting /\ s.reconnectTimeoutRef = 0
            THEN LET s1 == SetState(SetState(s, "isConnecting", TRUE),
                                    "uiConnectionStatus", "connecting")
                 IN  ConnectWithFetch([s1 EXCEPT !.retryCountRef = 0], p, TRUE)
            ELSE s
  ELSE LET s1 == SetState(SetState(SetState(SetState(s, "events", <<>>),
                                            "isConnected", FALSE),
                                   "isConnecting", FALSE),
                          "uiConnectionStatus", "idle")
           s2 == ClearReconnectTimeout(AbortCurrent(s1))
       IN  [s2 EXCEPT !.currentApiIdRef = Null]

----------------------------------------------------------------------------
(* The state after construction and the actions *)

Init ==
  /\ props \in HostProps
  /\ phase = "new"
  /\ events = <<>>
  /\ isConnected = FALSE
  /\ isConnecting = FALSE
  /\ uiConnectionStatus = "idle"
  /\ abortControllerRef = 0
  /\ attempts = << >>
  /\ reconnectTimeoutRef = 0
  /\ timers = << >>
  /\ retryCountRef = 0
  /\ hasLoggedInitialConnectionRef = FALSE
  /\ currentApiIdRef = Null
  /\ isInitialAttempt = FALSE
  /\ clock = 0
  /\ reader = NoReader

\* the first run of the effect
Mount ==
  /\ phase = "new"
  /\ Commit(EffectBody([Cur EXCEPT !.phase = "mounted"], props))

\* the host renders other props: cleanup of the last effect, then the effect
PropsChange(p) ==
  /\ phase = "mounted"
  /\ p # props
  /\ HasFreeAttempt(Cur)
  /\ Commit(EffectBody(Cleanup([Cur EXCEPT !.props = p]), p))

\* the host removes the component: cleanup of the last effect; React then
\* discards the useState values, the refs stay reachable from the closures
Unmount ==
  /\ phase = "mounted"
  /\ Commit([Cleanup(Cur) EXCEPT !.phase = "unmounted",
                                 !.events = <<>>,
                                 !.isConnected = FALSE,
                                 !.isConnecting = FALSE,
                                 !.uiConnectionStatus = "idle"])

\* the outcomes of fetch(): a response that is ok with a body, a response that
\* is not ok, a response without body, a rejection; once the signal is aborted
\* fetch rejects, with an AbortError or with the reason given to abort()
FetchOutcomes(a) ==
  IF attempts[a].aborted
  THEN { "abortError", "abortReason" }
  ELSE { "ok", "notOk", "noBody", "reject" }

FetchSettles(a, outcome) ==
  /\ a \in DOMAIN attempts
  /\ attempts[a].pc = "fetch"
  /\ outcome \in FetchOutcomes(a)
  /\ outcome \in { "noBody", "reject" } => retryCountRef < MaxRetry
  /\ Commit(CASE outcome = "ok" -> Connected(Cur, a)
              [] outcome = "notOk" -> [Cur EXCEPT !.attempts[a].pc = "errtext"]
              [] outcome = "noBody" -> CatchBlock(Cur, a, "Error", "emptyBody")
              [] outcome = "reject" -> CatchBlock(Cur, a, "TypeError", "failedToFetch")
              [] outcome = "abortError" -> CatchBlock(Cur, a, "AbortError", "aborted")
              [] outcome = "abortReason" -> CatchBlock(Cur, a, "undefined", "unknown"))

\* await response.text() settles and the HTTP error, or the rejection of the
\* read, is thrown
ErrorTextSettles(a, errorName) ==
  /\ a \in DOMAIN attempts
  /\ attempts[a].pc = "errtext"
  /\ errorName \in (IF attempts[a].aborted THEN { "Error", "AbortError", "undefined" } ELSE { "Error" })
  /\ ~attempts[a].aborted => retryCountRef < MaxRetry
  /\ Commit(CatchBlock(Cur, a, errorName, "httpError"))

Chunks(n) == UNION { [1..k -> FrameKinds] : k \in 1..n }

\* the chunks a read may resolve with; a read that had resolved when the
\* signal was aborted is enumerated with one chunk
ReadableChunks(a) ==
  IF attempts[a].aborted THEN { <<"update">> } ELSE Chunks(MaxLogLen - Len(events))

\* reader.read() resolves with a chunk of complete frames
ReadChunk(a, blocks) ==
  /\ a \in DOMAIN attempts
  /\ attempts[a].pc = "read"
  /\ blocks \in ReadableChunks(a)
  /\ Commit(AfterRead(Cur, a, FALSE, blocks))

\* reader.read() resolves with done
ReadDone(a) ==
  /\ a \in DOMAIN attempts
  /\ attempts[a].pc = "read"
  /\ ~attempts[a].aborted => retryCountRef < MaxRetry
  /\ Commit(AfterRead(Cur, a, TRUE, <<>>))

\* reader.read() rejects
ReadThrows(a, errorName) ==
  /\ a \in DOMAIN attempts
  /\ attempts[a].pc = "read"
  /\ errorName \in (IF attempts[a].aborted THEN { "AbortError", "undefined" } ELSE { "TypeError" })
  /\ ~attempts[a].aborted => retryCountRef < MaxRetry
  /\ Commit(CatchBlock(Cur, a, errorName, "readError"))

\* A plausible slip: the timer's attempt is made as an initial attempt
TimerFiresAsInitial(t) ==
  /\ t \in DOMAIN timers
  /\ HasFreeAttempt(Cur)
  /\ Commit(ConnectWithFetch([Cur EXCEPT !.timers = Restrict(@, DOMAIN @ \ {t})],
                             timers[t], TRUE))

\* the callback of setTimeout: connectWithFetch(false) of the closure that set it
TimerFires(t) ==
  /\ t \in DOMAIN timers
  /\ HasFreeAttempt(Cur)
  /\ Commit(ConnectWithFetch([Cur EXCEPT !.timers = Restrict(@, DOMAIN @ \ {t})],
                             timers[t], FALSE))

Next ==
  \/ Mount
  \/ \E p \in HostProps : PropsChange(p)
  \/ Unmount
  \/ \E a \in DOMAIN attempts : \E o \in FetchOutcomes(a) : FetchSettles(a, o)
  \/ \E a \in DOMAIN attempts : \E n \in { "Error", "AbortError", "undefined" } : ErrorTextSettles(a, n)
  \/ \E a \in DOMAIN attempts : \E blocks \in ReadableChunks(a) : ReadChunk(a, blocks)
  \/ \E a \in DOMAIN attempts : ReadDone(a)
  \/ \E a \in DOMAIN attempts : \E n \in { "AbortError", "undefined", "TypeError" } : ReadThrows(a, n)
  \/ \E t \in DOMAIN timers : TimerFires(t)

Spec == Init /\ [][Next]_vars

\* the timer callback runs once its delay has passed
LiveSpec == Spec /\ WF_vars(\E t \in TimerIds : TimerFires(t))

----------------------------------------------------------------------------
(* The event log alone: insertions and resets on the logs the session can  *)
(* hold, a full log among them                                             *)

StoredEvent(i, isStatus) ==
  IF isStatus
  THEN MkEvent("log", StringData(<<"kw_connected", "r1">>), Null, 0 - i)
  ELSE MkEvent("update", ObjectData, Null, 0 - i)

\* n stored events, newest first, the k-th one a status line (k = 0: none)
StoredLog(n, k) == [i \in 1..n |-> StoredEvent(i, i = k)]

StoredLengths == { 0, 1, 2, LogKeep - 1, LogKeep, LogKeep + 1 }

StoredLogs ==
  { StoredLog(n, k) : n \in StoredLengths, k \in { 0, 1, 2, LogKeep + 1 } }

InsertedEvents(ts) ==
  { MkEvent("update", ObjectData, Null, ts),
    ShutdownEvent(ts),
    InitializingEvent(MkProps("A", "r1", "t1", "n1"), ts),
    ReconnectErrorEvent(MkProps("A", "r1", "t1", "n1"), "serverClosed", 2, ts) }

LogInit ==
  /\ props = MkProps("A", "r1", "t1", "n1")
  /\ phase = "mounted"
  /\ events \in StoredLogs
  /\ isConnected = FALSE
  /\ isConnecting = FALSE
  /\ uiConnectionStatus = "idle"
  /\ abortControllerRef = 0
  /\ attempts = << >>
  /\ reconnectTimeoutRef = 0
  /\ timers = << >>
  /\ retryCountRef = 0
  /\ hasLoggedInitialConnectionRef = FALSE
  /\ currentApiIdRef = Null
  /\ isInitialAttempt = FALSE
  /\ clock = 0
  /\ reader = NoReader

\* addEventToLog(newEvent)
LogInsert(e) ==
  /\ clock < MaxClock
  /\ e \in InsertedEvents(clock)
  /\ Commit([AddEvent(Cur, e) EXCEPT !.clock = clock + 1])

\* setEvents([])
LogReset ==
  /\ events # <<>>
  /\ Commit(SetState(Cur, "events", <<>>))

LogNext ==
  \/ \E e \in InsertedEvents(clock) : LogInsert(e)
  \/ LogReset

LogSpec == LogInit /\ [][LogNext]_vars

----------------------------------------------------------------------------
(* The parser alone: one connected call reads a stream, cut into chunks at *)
(* any byte                                                                *)

ParserBlocks ==
  { Frame(<<"instance">>, <<t>>) :
      t \in { "j_update_instance", "j_create_data", "j_delete_bare", "j_initial_zero",
              "j_log_error", "j_log_info_error", "j_log_errors", "j_shutdown", "j_null" } }
  \cup { Frame(<<"instance">>, <<"{oops">>),
         Frame(<<>>, <<"retry:", SP, "3000">>),
         Frame(<<>>, <<"hello">>),
         Frame(<<"ping">>, <<"é">>),
         <<":">>,
         <<NL>> }

\* what may follow the last separator
ParserTails == { <<>>, <<"data:", SP, "hello">> }

RECURSIVE JoinBlocks(_)
JoinBlocks(blocks) ==
  IF blocks = <<>> THEN <<>> ELSE Head(blocks) \o <<NL, NL>> \o JoinBlocks(Tail(blocks))

ParserTexts ==
  { JoinBlocks(blocks) \o tail :
      blocks \in UNION { [1..k -> ParserBlocks] : k \in 0..MaxFrames },
      tail \in ParserTails }

\* the session once the first fetch for the props has connected, about to
\* read the bytes of stream
ParserStart(stream) ==
  LET p == MkProps("A", "r1", "t1", "n1")
  IN  [props |-> p, phase |-> "mounted", events |-> <<ConnectedEvent(p, 0)>>,
       isConnected |-> TRUE, isConnecting |-> FALSE,
       uiConnectionStatus |-> "connected",
       abortControllerRef |-> 1,
       attempts |-> <<[props |-> p, aborted |-> FALSE, pc |-> "read"]>>,
       reconnectTimeoutRef |-> 0, timers |-> << >>,
       retryCountRef |-> 0,
       hasLoggedInitialConnectionRef |-> TRUE,
       currentApiIdRef |-> "A",
       isInitialAttempt |-> TRUE, clock |-> 0,
       reader |-> [NoReader EXCEPT !.stream = stream]]

ParserInit ==
  \E text \in ParserTexts :
    LET s == ParserStart(Encode(text))
    IN  /\ props = s.props
        /\ phase = s.phase
        /\ events = s.events
        /\ isConnected = s.isConnected
        /\ isConnecting = s.isConnecting
        /\ uiConnectionStatus = s.uiConnectionStatus
        /\ abortControllerRef = s.abortControllerRef
        /\ attempts = s.attempts
        /\ reconnectTimeoutRef = s.reconnectTimeoutRef
        /\ timers = s.timers
        /\ retryCountRef = s.retryCountRef
        /\ hasLoggedInitialConnectionRef = s.hasLoggedInitialConnectionRef
        /\ currentApiIdRef = s.currentApiIdRef
        /\ isInitialAttempt = s.isInitialAttempt
        /\ clock = s.clock
        /\ reader = s.reader

\* reader.read() resolves with the next n bytes of the stream
ParserRead(n) ==
  /\ attempts[1].pc = "read"
  /\ n >= 1
  /\ reader.pos + n <= Len(reader.stream)
  /\ Commit(AfterReadBytes([Cur EXCEPT !.reader.pos = @ + n], 1, FALSE,
                           SubSeq(reader.stream, reader.pos + 1, reader.pos + n)))

\* the server has sent all of the stream: reader.read() resolves with done
ParserDone ==
  /\ attempts[1].pc = "read"
  /\ reader.pos = Len(reader.stream)
  /\ Commit(AfterReadBytes(Cur, 1, TRUE, <<>>))

ParserNext ==
  \/ \E n \in 1..(Len(reader.stream) - reader.pos) : ParserRead(n)
  \/ ParserDone

ParserSpec == ParserInit /\ [][ParserNext]_vars

----------------------------------------------------------------------------
(* The parser on streams of frames whose payload is a string with a level  *)
(* word in it, one frame of each kind                                      *)

LevelBlocks ==
  { Frame(<<"instance">>, <<"j_log_error">>),
    Frame(<<"instance">>, <<"j_update_text">>),
    Frame(<<"instance">>, <<"{oops", SP, "error">>),
    Frame(<<>>, <<"WARN", SP, "hello">>),
    Frame(<<"instance">>, <<"j_update_instance">>) }

LevelTexts ==
  { JoinBlocks(blocks) : blocks \in UNION { [1..k -> LevelBlocks] : k \in 1..MaxFrames } }

LevelInit ==
  \E text \in LevelTexts :
    LET s == ParserStart(Encode(text))
    IN  /\ props = s.props
        /\ phase = s.phase
        /\ events = s.events
        /\ isConnected = s.isConnected
        /\ isConnecting = s.isConnecting
        /\ uiConnectionStatus = s.uiConnectionStatus
        /\ abortControllerRef = s.abortControllerRef
        /\ attempts = s.attempts
        /\ reconnectTimeoutRef = s.reconnectTimeoutRef
        /\ timers = s.timers
        /\ retryCountRef = s.retryCountRef
        /\ hasLoggedInitialConnectionRef = s.hasLoggedInitialConnectionRef
        /\ currentApiIdRef = s.currentApiIdRef
        /\ isInitialAttempt = s.isInitialAttempt
        /\ clock = s.clock
        /\ reader = s.reader

LevelSpec == LevelInit /\ [][ParserNext]_vars

----------------------------------------------------------------------------
(* The session on the bytes of its streams: calls connect one after the    *)
(* other, each to a stream that the server may end at any byte             *)

\* A plausible slip: the buffer and the decoder outlive the call
NewReaderKeepsBuffer(s, stream) ==
  [s EXCEPT !.reader.stream = stream, !.reader.pos = 0, !.reader.handed = <<>>]

\* const reader = response.body.getReader(); const decoder = new TextDecoder();
\* let buffer = ''
NewReader(s, stream) == [s EXCEPT !.reader = [NoReader EXCEPT !.stream = stream]]

\* the bytes of the streams: one that ends in a fragment, one that begins
\* with a separator, one that ends inside a character, one that begins with
\* the second byte of a character
StreamBytes ==
  { Encode(Frame(<<"instance">>, <<"j_update_bare">>) \o <<NL, NL, "data:", SP, "partial">>),
    Encode(<<NL, NL>> \o Frame(<<>>, <<"hello">>) \o <<NL, NL>>),
    Encode(Frame(<<>>, <<"hello">>) \o <<NL, NL>>) \o <<"0xC3">>,
    <<"0xA9", NL, NL>> }

\* the host switches between two configurations
StreamProps == { MkProps("A", "r1", "t1", "n1"), MkProps("B", "r1", "t1", "n1") }

StreamInit == Init /\ props \in StreamProps

\* the response is ok and has a body: the connected transition and the
\* reader, decoder and buffer of the call
StreamConnects(a, stream) ==
  /\ a \in DOMAIN attempts
  /\ attempts[a].pc = "fetch"
  /\ ~attempts[a].aborted
  /\ stream \in StreamBytes
  /\ Len(events) < MaxLogLen
  /\ Commit(NewReader(Connected(Cur, a), stream))

\* reader.read() resolves with the next n bytes of the stream
StreamRead(a, n) ==
  /\ a \in DOMAIN attempts
  /\ attempts[a].pc = "read"
  /\ n >= 1
  /\ IF attempts[a].aborted
     THEN n = 1 /\ Commit(AfterReadBytes(Cur, a, FALSE, <<NL>>))
     ELSE /\ reader.pos + n <= Len(reader.stream)
          /\ Commit(AfterReadBytes([Cur EXCEPT !.reader.pos = @ + n], a, FALSE,
                                   SubSeq(reader.stream, reader.pos + 1, reader.pos + n)))

\* the server ends the stream, wherever it is: reader.read() resolves with done
StreamDone(a) ==
  /\ a \in DOMAIN attempts
  /\ attempts[a].pc = "read"
  /\ ~attempts[a].aborted => retryCountRef < MaxRetry
  /\ Commit(AfterReadBytes(Cur, a, TRUE, <<>>))

StreamNext ==
  \/ Mount
  \/ \E p \in StreamProps : PropsChange(p)
  \/ \E a \in DOMAIN attempts : FetchSettles(a, "abortError")
  \/ \E a \in DOMAIN attempts : \E stream \in StreamBytes : StreamConnects(a, stream)
  \/ \E a \in DOMAIN attempts : \E n \in 1..(Len(reader.stream) + 1) : StreamRead(a, n)
  \/ \E a \in DOMAIN attempts : StreamDone(a)
  \/ \E a \in DOMAIN attempts : \E n \in { "AbortError", "TypeError" } : ReadThrows(a, n)
  \/ \E t \in DOMAIN timers : TimerFires(t)

StreamSpec == StreamInit /\ [][StreamNext]_vars

----------------------------------------------------------------------------
(* Vocabulary of the claims *)

TimerPending == DOMAIN timers # {}

\* the controller in the ref belongs to a call that is still running and is not aborted
AttemptRunning ==
  /\ abortControllerRef # 0
  /\ ~attempts[abortControllerRef].aborted
  /\ attempts[abortControllerRef].pc # "done"

\* a step of the call a of connectWithFetch
AttemptStep(a) ==
  \/ \E o \in FetchOutcomes(a) : FetchSettles(a, o)
  \/ \E n \in { "Error", "AbortError", "undefined" } : ErrorTextSettles(a, n)
  \/ \E blocks \in ReadableChunks(a) : ReadChunk(a, blocks)
  \/ ReadDone(a)
  \/ \E n \in { "AbortError", "undefined", "TypeError" } : ReadThrows(a, n)

\* the call a, its signal not aborted, ends without having been cancelled:
\* fetch rejects, the response is not ok, has no body, a read throws or reports done
NonDeliberateEnd(a) ==
  /\ ~attempts[a].aborted
  /\ \/ FetchSettles(a, "reject")
     \/ FetchSettles(a, "noBody")
     \/ ErrorTextSettles(a, "Error")
     \/ ReadThrows(a, "TypeError")
     \/ ReadDone(a)

\* the call a, its signal not aborted, reads a chunk that holds a shutdown frame
ShutdownReceived(a) ==
  /\ ~attempts[a].aborted
  /\ attempts[a].pc = "read"
  /\ events' # events
  /\ \E blocks \in ReadableChunks(a) : Includes(blocks, "shutdown") /\ ReadChunk(a, blocks)

\* the host rendered other props
IdentityChanged == phase = "mounted" /\ props' # props

----------------------------------------------------------------------------
(* Claims *)

\* C1: when a call whose signal is not aborted ends without having been
\* cancelled, exactly one reconnect timer is pending afterwards, held by the
\* ref and closed over the props of that call; when a timer fires, a new call
\* is running for the props the timer closed over, with
\* isInitialAttemptForCurrentApi = false; and, there being no retry cap, a
\* pending timer leads to a running attempt unless the identity becomes
\* invalid or the component is unmounted.
C1_ReconnectAfterFailure ==
  /\ [][\A a \in DOMAIN attempts :
          NonDeliberateEnd(a) =>
            /\ DOMAIN timers' = {reconnectTimeoutRef'}
            /\ timers'[reconnectTimeoutRef'] = attempts[a].props]_vars
  /\ [][\A t \in DOMAIN timers :
          TimerFires(t) =>
            /\ abortControllerRef' # 0
            /\ attempts'[abortControllerRef'] =
                 [props |-> timers[t], aborted |-> FALSE, pc |-> "fetch"]
            /\ timers[t] = props
            /\ ~isInitialAttempt']_vars
  /\ (TimerPending ~> (AttemptRunning \/ phase = "unmounted" \/ ~PropsValid(props)))

\* C1 witness: the third failure in a row has armed a timer for the current props
C1_Witness ==
  /\ phase = "mounted"
  /\ retryCountRef = MaxRetry
  /\ DOMAIN timers = {reconnectTimeoutRef}
  /\ timers[reconnectTimeoutRef] = props
  /\ ~AttemptRunning

\* C2: a step of a call whose signal is aborted, whatever its fetch or read
\* settles with, sets no timer, leaves the retry counter and appends nothing
\* to the log.
C2_AbortedNeverReconnects ==
  [][\A a \in DOMAIN attempts :
       (attempts[a].aborted /\ AttemptStep(a)) =>
         /\ timers' = timers
         /\ reconnectTimeoutRef' = reconnectTimeoutRef
         /\ retryCountRef' = retryCountRef
         /\ events' = events]_vars

\* C2 witness: the call that owns the controller in the ref was aborted, has
\* returned, and nothing is scheduled although the identity is valid
C2_Witness ==
  /\ phase = "mounted"
  /\ PropsValid(props)
  /\ abortControllerRef # 0
  /\ attempts[abortControllerRef].aborted
  /\ attempts[abortControllerRef].pc = "done"
  /\ ~TimerPending
  /\ retryCountRef = 0

ErrorAppended ==
  /\ events' # <<>>
  /\ events'[1].level = "ERROR"
  /\ IsStatusEvent(events'[1])
  /\ Includes(events'[1].data.text, ToString(retryCountRef'))
  /\ Tail(events') = SelectSeq(events, NotStatusEvent)

\* C4 as stated: a read loop that fails after an earlier failure for the same
\* identity (the call was started by the reconnect timer) appends an error event.
C4_SecondReadFailureLogged ==
  [][\A a \in DOMAIN attempts :
       (NonDeliberateEnd(a) /\ attempts[a].pc = "read" /\ ~isInitialAttempt)
         => ErrorAppended]_vars

\* C4 as amended: the failures counted are those with no successful
\* connection in between. A failing call that is the first for its identity,
\* or that had connected, is the first of its run and is silent; a failing
\* call started by the reconnect timer that never connected is the second or
\* a later one and appends exactly one error event.
C4_SilentFirstRetry ==
  [][\A a \in DOMAIN attempts :
       NonDeliberateEnd(a) =>
         /\ retryCountRef' = retryCountRef + 1
         /\ (attempts[a].pc = "read" \/ isInitialAttempt)
              => (retryCountRef' = 1 /\ events' = events)
         /\ ~(attempts[a].pc = "read" \/ isInitialAttempt)
              => (retryCountRef' >= 2 /\ ErrorAppended)]_vars

\* C4 witness: three failures in a row, the third logged as retry 3
C4_Witness ==
  /\ retryCountRef = 3
  /\ events # <<>>
  /\ events[1].level = "ERROR"
  /\ Includes(events[1].data.text, "3")
  /\ TimerPending

\* C5: after the props changed, no step of a call made for other props
\* changes the event log.
C5_NoEventsFromOldIdentity ==
  [][\A a \in DOMAIN attempts :
       (attempts[a].props # props /\ AttemptStep(a)) => events' = events]_vars

\* C5 witness: B's first fetch is pending, the catch block of A's call ran
\* after the switch (it reset isConnecting), and the log holds B's
\* initializing diagnostic alone
C5_Witness ==
  /\ phase = "mounted"
  /\ currentApiIdRef = "B"
  /\ AttemptRunning
  /\ attempts[abortControllerRef].pc = "fetch"
  /\ isInitialAttempt
  /\ ~isConnecting
  /\ events = <<InitializingEvent(props, clock)>>

\* C6: right after the props changed to a valid configuration with another
\* apiId, no timer is pending, the retry counter is 0, the connected flag is
\* reset and the log holds the initializing diagnostic of the new
\* configuration alone.
C6_ResetOnNewApiId ==
  [][(IdentityChanged /\ PropsValid(props') /\ props'.apiId # currentApiIdRef) =>
       /\ ~TimerPending'
       /\ reconnectTimeoutRef' = 0
       /\ retryCountRef' = 0
       /\ ~hasLoggedInitialConnectionRef'
       /\ currentApiIdRef' = props'.apiId
       /\ events' = <<InitializingEvent(props', clock)>>]_vars

\* C6 witness: the state right after a switch from A to B made while A was connected
C6_Witness ==
  /\ phase = "mounted"
  /\ currentApiIdRef = "B"
  /\ Len(attempts) = 2
  /\ attempts[1].props.apiId = "A"
  /\ attempts[1].aborted
  /\ attempts[1].pc = "read"
  /\ attempts[2].pc = "fetch"
  /\ isConnecting
  /\ retryCountRef = 0
  /\ ~hasLoggedInitialConnectionRef
  /\ events = <<InitializingEvent(props, clock)>>

\* C7: after any change of the props to a valid identity, a new call for the
\* new props is running.
C7_RestartOnIdentityChange ==
  [][(IdentityChanged /\ PropsValid(props')) =>
       /\ abortControllerRef' # 0
       /\ attempts'[abortControllerRef'] =
            [props |-> props', aborted |-> FALSE, pc |-> "fetch"]]_vars

\* C8: every call whose signal is not aborted is the one whose controller is
\* in the ref, so at most one call is reading frames into the log.
C8_OneActiveAttempt ==
  \A a \in DOMAIN attempts : ~attempts[a].aborted => a = abortControllerRef

\* C8 witness: two calls are in their read loops, the older one aborted
C8_Witness ==
  /\ Len(attempts) = 2
  /\ abortControllerRef = 2
  /\ attempts[1].aborted /\ attempts[1].pc = "read"
  /\ ~attempts[2].aborted /\ attempts[2].pc = "read"

\* an insertion into the log
Inserted == clock' = clock + 1

HoldsStatus(log) == \E i \in 1..Len(log) : IsStatusEvent(log[i])

\* C9 as stated: the log never holds more than 200 entries, and an insertion
\* into a log of 200 drops the last entry and keeps the 199 others in order
\* behind the new one.
C9_FullLogDropsOldest ==
  /\ [](Len(events) <= LogKeep + 1)
  /\ [][(Inserted /\ Len(events) = LogKeep + 1) =>
          events' = <<events'[1]>> \o SubSeq(events, 1, LogKeep)]_vars

\* C9 as amended: the log never holds more than 200 entries; an insertion
\* into a log of 200 drops the last entry and keeps the 199 others in order
\* behind the new one, unless the new event is a status line and the log holds
\* a status line: then that status line is the one removed and the 199 others
\* are kept in order.
C9_LogBounded ==
  /\ [](Len(events) <= LogKeep + 1)
  /\ [][(Inserted /\ Len(events) = LogKeep + 1) =>
          /\ Len(events') = LogKeep + 1
          /\ IF IsStatusEvent(events'[1]) /\ HoldsStatus(events)
             THEN \E k \in 1..Len(events) :
                    /\ IsStatusEvent(events[k])
                    /\ Tail(events') = SubSeq(events, 1, k - 1) \o SubSeq(events, k + 1, Len(events))
             ELSE Tail(events') = SubSeq(events, 1, LogKeep)]_vars

\* C9 witness: an event was inserted into a full log, whose oldest entry is gone
C9_Witness ==
  /\ Len(events) = LogKeep + 1
  /\ events[1].timestamp = 0
  /\ events[LogKeep + 1].timestamp = 0 - LogKeep

\* C10 as stated: inserting a status line removes the status lines of the log
\* and leaves every other event in place, in order.
C10_StatusInsertKeepsOthers ==
  [][(Inserted /\ IsStatusEvent(events'[1])) =>
       Tail(events') = SelectSeq(events, NotStatusEvent)]_vars

\* C10 as amended: inserting a status line removes the status lines of the log
\* and leaves every other event in place, in order, except that of 200 events
\* that are not status lines the oldest is dropped.
C10_StatusInsertReplacesStatus ==
  [][(Inserted /\ IsStatusEvent(events'[1])) =>
       LET others == SelectSeq(events, NotStatusEvent)
       IN  /\ \A i \in 2..Len(events') : ~IsStatusEvent(events'[i])
           /\ IF Len(others) <= LogKeep
              THEN Tail(events') = others
              ELSE Tail(events') = SubSeq(others, 1, LogKeep)]_vars

\* C10 witness: a status line was inserted into a full log that held an older
\* status line; the 199 other events are all there
C10_Witness ==
  /\ Len(events) = LogKeep + 1
  /\ IsStatusEvent(events[1])
  /\ events[1].timestamp = 0
  /\ events[2].timestamp = 0 - 2
  /\ events[LogKeep + 1].timestamp = 0 - (LogKeep + 1)

\* the text delivered so far
DeliveredText == Decode(<<>>, SubSeq(reader.stream, 1, reader.pos)).chars

HasSeparator(text) == \E i \in 1..Len(text) : IsSepAt(text, i, 2)

HandedOne == Len(reader'.handed) = Len(reader.handed) + 1

\* the block the step passed last
NewBlock == reader'.handed[Len(reader'.handed)]

\* a block with event name instance whose data line is the text of a JSON object
IsInstanceBlock(block) ==
  /\ FrameFields(block).event = <<"instance">>
  /\ JsonParses(FrameFields(block).data)
  /\ ~JsonValue(FrameFields(block).data[1]).isNull

PayloadOf(block) == JsonValue(FrameFields(block).data[1])

InstanceTypes == { "initial", "create", "update", "delete" }

\* C12 as stated: a frame with event name instance and a JSON object of type
\* initial, create, update or delete is decoded to an event of that type
\* whose payload is the instance field when the object has one, else the
\* data field when it has one, else {}.
C12_PayloadWhenPresent ==
  [][(HandedOne /\ IsInstanceBlock(NewBlock) /\ PayloadOf(NewBlock).type \in InstanceTypes) =>
       LET v == PayloadOf(NewBlock)
       IN  /\ events'[1].type = v.type
           /\ events'[1].data =
                IF v.instance # Undefined THEN JsonData(v.instance)
                ELSE IF v.data # Undefined THEN JsonData(v.data)
                ELSE ObjectData]_vars

\* C12 as amended: such a frame is decoded to an event of that type whose
\* payload is the instance field unless it is absent or a false value (null,
\* 0, "", false), else the data field unless it is absent or a false value,
\* else {}; the log has the event in front of what it held.
C12_PayloadWhenTruthy ==
  [][(HandedOne /\ IsInstanceBlock(NewBlock) /\ PayloadOf(NewBlock).type \in InstanceTypes) =>
       LET v == PayloadOf(NewBlock)
           falseValues == { Undefined, "null", "zero", "emptyString", "false" }
       IN  /\ events'[1].type = v.type
           /\ events'[1].data =
                IF v.instance \notin falseValues THEN JsonData(v.instance)
                ELSE IF v.data \notin falseValues THEN JsonData(v.data)
                ELSE ObjectData
           /\ Tail(events') = events]_vars

\* C12 witness: an update with an instance and a data field was decoded to
\* the instance, behind it a create with a data field alone decoded to the data
C12_Witness ==
  /\ Len(events) >= 2
  /\ events[1].type = "update"
  /\ events[1].data = JsonData("I1")
  /\ events[2].type = "create"
  /\ events[2].data = JsonData("D1")

\* the words of the model that are the token ERROR, and those that are any
\* of the level tokens, in whatever case
ErrorWords == { "ERROR", "error", "Error" }
LevelWords == ErrorWords \cup { "DEBUG", "INFO", "info", "WARN", "FATAL" }

\* the step decoded one frame with event name instance and JSON type log
LogFrameDecoded ==
  HandedOne /\ IsInstanceBlock(NewBlock) /\ PayloadOf(NewBlock).type = "log"

\* C13 as stated: a frame with event name instance and JSON type log is
\* decoded to a log event, and its level is ERROR if its text holds the word
\* ERROR in any case.
C13_ErrorAnywhereGivesError ==
  [][LogFrameDecoded =>
       LET text == events'[1].data.text
       IN  /\ events'[1].type = "log"
           /\ (\E i \in 1..Len(text) : text[i] \in ErrorWords) => events'[1].level = "ERROR"]_vars

\* C13 as amended: such a frame is decoded to a log event whose level is the
\* first level word of its text, in upper case: ERROR if the first level
\* word is ERROR in any case, and no level if the text holds no level word.
C13_FirstLevelWord ==
  [][LogFrameDecoded =>
       LET text == events'[1].data.text
           isFirstLevel(i) == text[i] \in LevelWords /\ \A j \in 1..(i - 1) : text[j] \notin LevelWords
       IN  /\ events'[1].type = "log"
           /\ PayloadOf(NewBlock).logs # <<>> => text = PayloadOf(NewBlock).logs
           /\ \A i \in 1..Len(text) :
                (isFirstLevel(i) /\ text[i] \in ErrorWords) => events'[1].level = "ERROR"
           /\ \A i \in 1..Len(text) :
                (isFirstLevel(i) /\ text[i] \notin ErrorWords) =>
                  events'[1].level \in { "DEBUG", "INFO", "WARN", "FATAL" }
           /\ (\A i \in 1..Len(text) : text[i] \notin LevelWords) => events'[1].level = Null]_vars

\* C13 witness: a log line with the word error in lower case was decoded with level ERROR
C13_Witness ==
  /\ events # <<>>
  /\ events[1].type = "log"
  /\ events[1].level = "ERROR"
  /\ Includes(events[1].data.text, "error")

\* a block with event name instance whose data line is not the text of a JSON document
IsUnparsableBlock(block) ==
  /\ FrameFields(block).event = <<"instance">>
  /\ FrameFields(block).data # <<>>
  /\ ~JsonParses(FrameFields(block).data)

\* e is a log event whose string payload ends with the text given
IsLogEventWith(e, text) ==
  /\ e.type = "log"
  /\ e.data.isString
  /\ Len(e.data.text) >= Len(text)
  /\ SubSeq(e.data.text, Len(e.data.text) - Len(text) + 1, Len(e.data.text)) = text

\* the step passed exactly two blocks to the parser
HandedTwo == Len(reader'.handed) = Len(reader.handed) + 2

\* C14: a frame with event name instance whose data line does not parse adds
\* exactly one log event, whose payload holds the data line, to the log (as
\* a status line, it takes the place of the status lines); the call stays in
\* its read loop, not aborted, connected, with no timer and the retry counter
\* left; and a frame that follows it in the same chunk is decoded after it.
C14_UnparsableFrameLogged ==
  /\ [][(HandedOne /\ IsUnparsableBlock(NewBlock)) =>
          /\ IsLogEventWith(events'[1], FrameFields(NewBlock).data)
          /\ Tail(events') = SelectSeq(events, NotStatusEvent)
          /\ attempts' = attempts
          /\ attempts'[1].pc = "read"
          /\ ~attempts'[1].aborted
          /\ isConnected'
          /\ uiConnectionStatus' = "connected"
          /\ timers' = timers
          /\ reconnectTimeoutRef' = 0
          /\ retryCountRef' = retryCountRef]_vars
  /\ [][(/\ HandedTwo
          /\ IsUnparsableBlock(reader'.handed[Len(reader'.handed) - 1])
          /\ IsInstanceBlock(NewBlock)
          /\ PayloadOf(NewBlock).type \in InstanceTypes \cup { "log" }) =>
          /\ events'[1].type = PayloadOf(NewBlock).type
          /\ IsLogEventWith(events'[2], FrameFields(reader'.handed[Len(reader'.handed) - 1]).data)
          /\ Len(events') = Len(SelectSeq(events, NotStatusEvent)) + 2
          /\ attempts'[1].pc = "read"
          /\ timers' = timers]_vars

\* C14 witness: an update was decoded after a frame whose data did not
\* parse; that frame's log line is behind it and the call reads on
C14_Witness ==
  /\ Len(events) = 2
  /\ events[1].type = "update"
  /\ IsLogEventWith(events[2], <<"{oops">>)
  /\ attempts[1].pc = "read"
  /\ ~attempts[1].aborted
  /\ isConnected
  /\ timers = << >>

\* a block whose event name is not instance (none is the name message) and
\* whose data line is not empty
IsPlainBlock(block) ==
  /\ FrameFields(block).event # <<"instance">>
  /\ FrameFields(block).data # <<>>

IsRetryHint(block) == StartsWith(FrameFields(block).data, <<"retry:">>)

\* C15: a frame that is not an instance frame and whose data line begins
\* with retry: leaves the log, the retry counter, the timer and the call as
\* they are; any other such frame with a data line adds exactly one log
\* event, the generic message with the data line.
C15_RetryHintIgnored ==
  /\ [][(HandedOne /\ IsPlainBlock(NewBlock) /\ IsRetryHint(NewBlock)) =>
          /\ events' = events
          /\ retryCountRef' = retryCountRef
          /\ timers' = timers
          /\ reconnectTimeoutRef' = reconnectTimeoutRef
          /\ attempts' = attempts]_vars
  /\ [][(HandedOne /\ IsPlainBlock(NewBlock) /\ ~IsRetryHint(NewBlock)) =>
          /\ IsLogEventWith(events'[1], FrameFields(NewBlock).data)
          /\ Includes(events'[1].data.text, "genericMessage")
          /\ Tail(events') = IF IsStatusEvent(events'[1])
                              THEN SelectSeq(events, NotStatusEvent)
                              ELSE events
          /\ retryCountRef' = retryCountRef
          /\ timers' = timers]_vars

\* C15 witness: the stream began with a retry hint, which was passed to the
\* parser and left the log as it was, and a plain message was logged after it
C15_Witness ==
  /\ reader.handed = << Frame(<<>>, <<"retry:", SP, "3000">>), Frame(<<>>, <<"hello">>) >>
  /\ events = << Stamp(GenericEvent(<<"hello">>), clock), ConnectedEvent(props, 0) >>
  /\ retryCountRef = 0
  /\ timers = << >>

\* the component is mounted with an identity that is not valid
IdentityInvalid == phase = "mounted" /\ ~PropsValid(props)

\* C16: when the props become invalid, every call is aborted, no timer is
\* pending and the status is idle; and for as long as the props stay invalid
\* this remains so: no call runs that is not aborted, no timer is set and
\* the retry counter does not move.
C16_InvalidIdentityIdle ==
  /\ [][(IdentityChanged /\ ~PropsValid(props')) =>
          /\ \A a \in DOMAIN attempts' : attempts'[a].aborted
          /\ timers' = << >>
          /\ reconnectTimeoutRef' = 0
          /\ uiConnectionStatus' = "idle"
          /\ ~isConnected'
          /\ ~isConnecting']_vars
  /\ [](IdentityInvalid =>
          /\ \A a \in DOMAIN attempts : attempts[a].aborted
          /\ ~AttemptRunning
          /\ ~TimerPending
          /\ reconnectTimeoutRef = 0
          /\ uiConnectionStatus = "idle"
          /\ ~isConnected
          /\ ~isConnecting)
  /\ [][(IdentityInvalid /\ props' = props /\ phase' = phase) =>
          /\ retryCountRef' = retryCountRef
          /\ Len(attempts') <= Len(attempts)]_vars

\* C16 witness: the props became invalid while a call was in its read loop;
\* the call is aborted and has not returned yet
C16_Witness ==
  /\ IdentityInvalid
  /\ abortControllerRef # 0
  /\ attempts[abortControllerRef].aborted
  /\ attempts[abortControllerRef].pc = "read"
  /\ uiConnectionStatus = "idle"
  /\ ~TimerPending

IsDisabledDiagnostic(e) == e.data.isString /\ Includes(e.data.text, "configInvalid")

\* C17: when the props become invalid, the log holds exactly one diagnostic
\* saying that the event stream is disabled.
C17_DisabledDiagnosticEmitted ==
  [][(IdentityChanged /\ ~PropsValid(props')) =>
       Len(SelectSeq(events', IsDisabledDiagnostic)) = 1]_vars

\* C18: in every reachable state at most one timer is pending, the one in
\* the ref; none is pending while the call of the controller in the ref runs
\* un-aborted (from its start, through its read loop), none after the
\* component was unmounted, and none right after the props changed.
C18_OneTimer ==
  /\ [](Cardinality(DOMAIN timers) <= 1)
  /\ [](DOMAIN timers = IF reconnectTimeoutRef = 0 THEN {} ELSE { reconnectTimeoutRef })
  /\ [](AttemptRunning => ~TimerPending)
  /\ [](\A a \in DOMAIN attempts :
          (~attempts[a].aborted /\ attempts[a].pc = "read") => ~TimerPending)
  /\ [](phase = "unmounted" => ~TimerPending)
  /\ [][(IdentityChanged \/ phase' = "unmounted") =>
          (timers' = << >> /\ reconnectTimeoutRef' = 0)]_vars
  /\ [][\A t \in DOMAIN timers : TimerFires(t) => timers' = << >>]_vars

\* C18 witness: the component was unmounted while the timer set by a failed
\* call was pending; the timer is gone
C18_Witness ==
  /\ phase = "unmounted"
  /\ retryCountRef >= 1
  /\ abortControllerRef # 0
  /\ attempts[abortControllerRef].pc = "done"
  /\ timers = << >>
  /\ reconnectTimeoutRef = 0

IsInitializingDiagnostic(e) == e.data.isString /\ Includes(e.data.text, "kw_initializing")

\* the step put an initializing diagnostic in front of the log
EmitsInitializing ==
  /\ events' # events
  /\ events' # <<>>
  /\ IsInitializingDiagnostic(events'[1])

\* C19: the call started by the reconnect timer is not an initial attempt
\* and leaves the log as it is; while the props stay the same no step puts
\* an initializing diagnostic in the log, so for one identity it is emitted
\* by the mount or the props change that starts its first attempt and never
\* again; and that step leaves exactly one, naming the new props.
C19_InitializingOnce ==
  /\ [][\A t \in DOMAIN timers :
          TimerFires(t) => (events' = events /\ ~isInitialAttempt')]_vars
  /\ [][(phase = "mounted" /\ props' = props) => ~EmitsInitializing]_vars
  /\ [][EmitsInitializing =>
          /\ events'[1] = InitializingEvent(props', clock)
          /\ Len(SelectSeq(events', IsInitializingDiagnostic)) = 1
          /\ isInitialAttempt'
          /\ AttemptRunning'
          /\ attempts'[abortControllerRef'].pc = "fetch"]_vars

\* C19 witness: the call started by the timer after the second failure is
\* fetching; the log holds the error of that failure and no initializing
\* diagnostic
C19_Witness ==
  /\ phase = "mounted"
  /\ AttemptRunning
  /\ attempts[abortControllerRef].pc = "fetch"
  /\ ~isInitialAttempt
  /\ retryCountRef = 2
  /\ events # <<>>
  /\ events[1].level = "ERROR"
  /\ \A i \in 1..Len(events) : ~IsInitializingDiagnostic(events[i])

\* the step of a call whose fetch answered 200 with a body
BecomesConnected == \E a \in DOMAIN attempts : FetchSettles(a, "ok")

\* the step schedules a reconnect: a timer is pending after it and none was
ReconnectScheduled == ~TimerPending /\ TimerPending'

\* the effect starts the first call against new props
InitialAttemptStarted ==
  /\ phase = "new" \/ props' # props
  /\ AttemptRunning'
  /\ isInitialAttempt'

\* C20: the step that makes the status connected sets the retry counter to
\* 0 and no step raises it while the status stays connected, so the counter
\* is 0 whenever the status is connected; the counter goes up by one exactly
\* in the steps that schedule a reconnect and changes otherwise only by
\* being set to 0, when a call connects or the effect starts the first call
\* against new props; after the mount and after every change to valid props
\* the counter is 0.
C20_RetryCounter ==
  /\ [](uiConnectionStatus = "connected" => retryCountRef = 0)
  /\ [](isConnected => retryCountRef = 0)
  /\ [][BecomesConnected =>
          (retryCountRef' = 0 /\ uiConnectionStatus' = "connected")]_vars
  /\ [][ReconnectScheduled <=> retryCountRef' = retryCountRef + 1]_vars
  /\ [][((phase = "new" \/ IdentityChanged) /\ PropsValid(props')) =>
          retryCountRef' = 0]_vars
  /\ [][retryCountRef' # retryCountRef =>
          \/ ReconnectScheduled
          \/ retryCountRef' = 0 /\ (BecomesConnected \/ InitialAttemptStarted)]_vars

\* C20 witness: a call started by the timer after two scheduled reconnects
\* has connected, and the counter is back at 0
C20_Witness ==
  /\ phase = "mounted"
  /\ uiConnectionStatus = "connected"
  /\ retryCountRef = 0
  /\ AttemptRunning
  /\ attempts[abortControllerRef].pc = "read"
  /\ ~isInitialAttempt
  /\ abortControllerRef >= 2

IsConnectedDiagnostic(e) == e.data.isString /\ Includes(e.data.text, "kw_connected")

\* the step put a stream-connected diagnostic in front of the log
EmitsConnected ==
  /\ events' # events
  /\ events' # <<>>
  /\ IsConnectedDiagnostic(events'[1])

\* C21: a step puts the stream-connected diagnostic in the log only when a
\* call connects while hasLoggedInitialConnectionRef is false, and it sets
\* the flag; a call that connects while the flag is set leaves the log as
\* it is; and the flag, once set, is cleared only by the effect's branch for
\* a new apiId, which empties the log. So between two such resets the
\* diagnostic is appended at most once, by the first call that connects.
C21_ConnectedOnce ==
  /\ [][EmitsConnected =>
          /\ BecomesConnected
          /\ ~hasLoggedInitialConnectionRef
          /\ hasLoggedInitialConnectionRef'
          /\ Len(SelectSeq(events', IsConnectedDiagnostic)) = 1]_vars
  /\ [][(BecomesConnected /\ hasLoggedInitialConnectionRef) =>
          (events' = events /\ hasLoggedInitialConnectionRef')]_vars
  /\ [][(BecomesConnected /\ ~hasLoggedInitialConnectionRef /\ phase = "mounted") =>
          EmitsConnected]_vars
  /\ [][(hasLoggedInitialConnectionRef /\ ~hasLoggedInitialConnectionRef') =>
          /\ IdentityChanged
          /\ currentApiIdRef' # currentApiIdRef
          /\ \A i \in 1..Len(events') : ~IsConnectedDiagnostic(events'[i])]_vars

\* C21 witness: a call started by the reconnect timer has connected; the log
\* holds the one diagnostic of the first connection under a later frame
C21_Witness ==
  /\ phase = "mounted"
  /\ uiConnectionStatus = "connected"
  /\ AttemptRunning
  /\ attempts[abortControllerRef].pc = "read"
  /\ ~isInitialAttempt
  /\ hasLoggedInitialConnectionRef
  /\ Len(events) = 2
  /\ events[1].type = "update"
  /\ IsConnectedDiagnostic(events[2])

\* C22 (as stated): whenever the status is connected, the controller in the
\* ref belongs to a call that is not aborted and is in its read loop.
C22_ConnectedMeansReading ==
  (phase = "mounted" /\ uiConnectionStatus = "connected") =>
    (AttemptRunning /\ attempts[abortControllerRef].pc = "read")

RECURSIVE DecodedInOrder(_, _)
\* the events the blocks decode to, in the order of the blocks
DecodedInOrder(blocks, now) ==
  IF blocks = <<>> THEN <<>>
  ELSE LET d == DecodeBlock(Head(blocks))
       IN  (IF d.events = <<>> THEN <<>> ELSE <<Stamp(d.events[1], now)>>)
             \o DecodedInOrder(Tail(blocks), now)

RECURSIVE IsSubsequence(_, _)
\* sub is what is left of seq after deleting some of its elements
IsSubsequence(sub, seq) ==
  IF sub = <<>> THEN TRUE
  ELSE IF seq = <<>> THEN FALSE
  ELSE IF Head(sub) = Head(seq)
       THEN IsSubsequence(Tail(sub), Tail(seq))
       ELSE IsSubsequence(sub, Tail(seq))

\* the events of the frames of the stream that have been decoded, the last
\* frame's first, and behind them the diagnostic the log held at the start
NewestFirst == Reverse(DecodedInOrder(reader.handed, clock)) \o <<ConnectedEvent(props, 0)>>

\* C23: however the stream is cut into chunks, the log is what is left of
\* the decoded events in the reverse of the order of their frames: two
\* events in the log are in that order, the later frame's at the smaller
\* index; the events that are not status lines are all there; and a step
\* that decodes frames puts their events in front of those of the earlier
\* frames.
C23_NewestFirst ==
  /\ [](IsSubsequence(events, NewestFirst))
  /\ [](SelectSeq(events, NotStatusEvent) = SelectSeq(NewestFirst, NotStatusEvent))
  /\ [][reader'.handed # reader.handed =>
          \E k \in 0..Len(events') :
            /\ IsSubsequence(SubSeq(events', k + 1, Len(events')), events)
            /\ IsSubsequence(SubSeq(events', 1, k),
                             Reverse(DecodedInOrder(SubSeq(reader'.handed, Len(reader.handed) + 1,
                                                           Len(reader'.handed)), clock)))]_vars

\* C23 witness: an update frame and then a create frame were decoded; the
\* create event is at index 1 and the update event at index 2
C23_Witness ==
  /\ Len(reader.handed) = 2
  /\ Len(events) >= 2
  /\ events[1].type = "create"
  /\ events[2].type = "update"
  /\ IsInstanceBlock(reader.handed[1])
  /\ PayloadOf(reader.handed[1]).type = "update"
  /\ PayloadOf(reader.handed[2]).type = "create"

\* C24 (as stated): every decoded event whose payload is a string carries
\* the level of the first level word of the payload, whether it is a log
\* text, the message for an unknown type, the generic message, the
\* parse-error message or the string data of a lifecycle event.
C24_LevelForEveryString ==
  [][(HandedOne /\ events' # events /\ events'[1].data.isString) =>
       events'[1].level = ParseLogLevel(events'[1].data.text)]_vars

IsShutdownEvent(e) == e.type = "shutdown"

\* the step put a shutdown event in the log
ShutdownLogged ==
  Len(SelectSeq(events', IsShutdownEvent)) > Len(SelectSeq(events, IsShutdownEvent))

\* a step of the call a that ends it or aborts its signal
OwnerEnds(a) ==
  \/ ReadDone(a)
  \/ \E n \in { "AbortError", "undefined", "TypeError" } : ReadThrows(a, n)
  \/ \E n \in { "Error", "AbortError", "undefined" } : ErrorTextSettles(a, n)
  \/ \E o \in FetchOutcomes(a) : FetchSettles(a, o)
  \/ ShutdownReceived(a)

\* C25: a call that is still running with a signal that is not aborted is
\* the call of the controller in the ref; once the signal of a call in its
\* read loop is aborted, its next step ends the call and leaves the log;
\* while the host does nothing, the owner of the controller in the ref
\* stops running, or gets its signal aborted, only by a step of its own,
\* never by a step of another call; a signal is aborted, other than by the
\* host, only by the shutdown frame its own call reads; the shutdown frame
\* is logged only in a step in which the owner of the controller in the
\* ref is in its read loop, and aborts that controller; and
\* scheduleReconnect gets past its guard only for the call that owns the
\* controller in the ref. (Each is stated as: a step that breaks it is not
\* a step of the call.)
C25_AbortIsOwn ==
  /\ [](\A a \in DOMAIN attempts :
          (attempts[a].pc # "done" /\ ~attempts[a].aborted) => a = abortControllerRef)
  /\ [][\A a \in DOMAIN attempts :
          (/\ attempts[a].aborted
           /\ attempts[a].pc = "read"
           /\ ~(/\ events' = events
                /\ Len(attempts') < Len(attempts) \/ attempts'[a].pc = "done")) =>
            ~AttemptStep(a)]_vars
  /\ [][(AttemptRunning /\ ~AttemptRunning' /\ props' = props /\ phase' = phase) =>
          OwnerEnds(abortControllerRef)]_vars
  /\ [][\A a \in DOMAIN attempts :
          (/\ props' = props
           /\ phase' = phase
           /\ Len(attempts') = Len(attempts)
           /\ ~attempts[a].aborted
           /\ attempts'[a].aborted) => ShutdownReceived(a)]_vars
  /\ [][ShutdownLogged =>
          /\ AttemptRunning
          /\ attempts[abortControllerRef].pc = "read"
          /\ abortControllerRef' = abortControllerRef
          /\ attempts'[abortControllerRef].aborted]_vars
  /\ [][\A a \in DOMAIN attempts :
          (/\ timers' # timers \/ retryCountRef' # retryCountRef
           /\ a # abortControllerRef \/ attempts[a].aborted) =>
            ~AttemptStep(a)]_vars

\* C25 witness: the call the effect started for other props has connected
\* and is not aborted, while the call it replaced, aborted in its read
\* loop, still waits for its read to settle
C25_Witness ==
  /\ phase = "mounted"
  /\ Len(attempts) = 2
  /\ abortControllerRef = 2
  /\ attempts[1].aborted
  /\ attempts[1].pc = "read"
  /\ ~attempts[2].aborted
  /\ attempts[2].pc = "read"

\* C26: the log never holds more than one event whose payload is a string
\* with a status keyword.
C26_OneStatusEvent == Len(SelectSeq(events, IsStatusEvent)) <= 1

\* C26 witness: the initializing and the connected diagnostic were appended
\* and then a frame and a server log line with a status keyword; the log
\* holds the log line as its one status event, in front of the frame's event
C26_Witness ==
  /\ phase = "mounted"
  /\ hasLoggedInitialConnectionRef
  /\ Len(events) = 2
  /\ events[1].data = StringData(<<"serverText", "kw_error">>)
  /\ events[2].type = "update"

IsServerClosedDiagnostic(e) == e.data.isString /\ Includes(e.data.text, "kw_streamClosedByServer")

\* C27: while a call that is not aborted is in its read loop the retry
\* counter is 0; when its read reports done, the counter becomes 1, a
\* reconnect timer is set, the status is disconnected and the log is left as
\* it is; so the diagnostic for a stream closed by the server is in no log.
C27_ServerCloseSilent ==
  /\ [](\A a \in DOMAIN attempts :
          (attempts[a].pc = "read" /\ ~attempts[a].aborted) => retryCountRef = 0)
  /\ [][\A a \in DOMAIN attempts :
          (/\ attempts[a].pc = "read"
           /\ ~attempts[a].aborted
           /\ ~(/\ retryCountRef' = 1
                /\ events' = events
                /\ TimerPending'
                /\ phase = "mounted" => uiConnectionStatus' = "disconnected")) =>
            ~ReadDone(a)]_vars
  /\ [](\A i \in 1..Len(events) : ~IsServerClosedDiagnostic(events[i]))

\* C27 witness: the call started by the reconnect timer had connected and
\* ended without being aborted; the counter is 1 again, the next timer is
\* pending and the log holds no error event
C27_Witness ==
  /\ phase = "mounted"
  /\ uiConnectionStatus = "disconnected"
  /\ ~isInitialAttempt
  /\ hasLoggedInitialConnectionRef
  /\ retryCountRef = 1
  /\ TimerPending
  /\ events # <<>>
  /\ \A i \in 1..Len(events) : events[i].level # "ERROR"

\* C28 (as stated): a step of a call whose signal is aborted leaves the
\* connected and connecting flags, the status, the retry counter, the
\* reconnect timer and the log as they are.
C28_AbortedCallChangesNothing ==
  [][\A a \in DOMAIN attempts :
       (/\ attempts[a].aborted
        /\ ~(/\ isConnected' = isConnected
             /\ isConnecting' = isConnecting
             /\ uiConnectionStatus' = uiConnectionStatus
             /\ retryCountRef' = retryCountRef
             /\ timers' = timers
             /\ reconnectTimeoutRef' = reconnectTimeoutRef
             /\ events' = events)) =>
         ~AttemptStep(a)]_vars

IsShutdownBlock(block) == IsInstanceBlock(block) /\ PayloadOf(block).type = "shutdown"

\* a shutdown frame has been decoded
ShutdownDecoded == \E i \in 1..Len(reader.handed) : IsShutdownBlock(reader.handed[i])

\* once a shutdown frame has been decoded, the reads that follow add nothing
\* to the log
NothingAfterShutdownChunk == [][ShutdownDecoded => events' = events]_vars

\* C29 (as stated): once a shutdown frame has been decoded its event is the
\* newest of the log, and stays so: no frame after it, in the same chunk or
\* in a later one, adds an event.
C29_ShutdownIsLast ==
  /\ [](ShutdownDecoded =>
          /\ events # <<>>
          /\ events[1].type = "shutdown"
          /\ Len(SelectSeq(events, IsShutdownEvent)) = 1)
  /\ NothingAfterShutdownChunk

\* the call at a in the state before the step connects in the step
JustConnected ==
  \E a \in DOMAIN attempts :
    /\ attempts[a].pc = "fetch"
    /\ a \in DOMAIN attempts'
    /\ attempts'[a].pc = "read"
    /\ Len(attempts') = Len(attempts)

\* the text of the fragment, which no stream ever closes with a separator
HoldsFragment(text) == Includes(text, "partial")

\* C30: a call that connects starts with an empty buffer, a decoder that
\* holds no byte and no block parsed; at any time the blocks parsed and the
\* buffer are those of the bytes delivered by the stream of the call that
\* connected last, and of no other; the step in which a read reports done,
\* fails or finds the signal aborted leaves the log and the blocks parsed
\* as they are, whatever the buffer holds; and the fragment that a stream
\* ended with is in no block handed to the parser and in no event.
C30_BufferPerAttempt ==
  /\ [][JustConnected =>
          /\ reader'.buffer = <<>>
          /\ reader'.pending = <<>>
          /\ reader'.handed = <<>>
          /\ reader'.pos = 0]_vars
  /\ [](LET pieces == Split(DeliveredText, 2)
        IN  /\ reader.handed = SelectSeq(Front(pieces), NotBlank)
            /\ reader.buffer = pieces[Len(pieces)]
            /\ reader.pending = Decode(<<>>, SubSeq(reader.stream, 1, reader.pos)).pending)
  /\ [][\A a \in DOMAIN attempts :
          (/\ attempts[a].pc = "read"
           /\ events' # events \/ reader'.handed # reader.handed) =>
            /\ ~StreamDone(a)
            /\ \A n \in { "AbortError", "TypeError" } : ~ReadThrows(a, n)
            /\ attempts[a].aborted => ~StreamRead(a, 1)]_vars
  /\ [](/\ \A i \in 1..Len(reader.handed) : ~HoldsFragment(reader.handed[i])
        /\ \A i \in 1..Len(events) : ~HoldsFragment(events[i].data.text))

\* C30 witness: the first call left the fragment in its buffer when its
\* stream ended; the call started by the reconnect timer has read all of a
\* stream that begins with a separator, and the log holds that stream's
\* message in front of the first stream's event
C30_Witness ==
  /\ phase = "mounted"
  /\ ~isInitialAttempt
  /\ AttemptRunning
  /\ attempts[abortControllerRef].pc = "read"
  /\ reader.stream = Encode(<<NL, NL>> \o Frame(<<>>, <<"hello">>) \o <<NL, NL>>)
  /\ reader.pos = Len(reader.stream)
  /\ reader.buffer = <<>>
  /\ Len(events) >= 2
  /\ events[1].data = StringData(<<"genericMessage", "(fetch)", "hello">>)
  /\ events[2].type = "update"

====
